---- MODULE Spec2Model ----
(***************************************************************************)
(* Model of the hls-server job pipeline for one job id:                    *)
(*   - POST /process (src/src/app.ts) writes the Status Record and         *)
(*     enqueues the job;                                                   *)
(*   - processJob (src/src/worker/redis_consumer.ts) is the Job Runner;    *)
(*   - runFFmpegWorker / runUploadWorker wrap the two isolated units in    *)
(*     promises;                                                           *)
(*   - queueEvents.on("failed"/"completed") is the queue observer.         *)
(* The Status Record is the Redis hash video:<videoId>: a function from    *)
(* the field names that have been set to their values.                     *)
(***************************************************************************)
EXTENDS Integers, Sequences, FiniteSets, TLC

VARIABLES
    rec,            \* Redis hash video:<videoId> (field -> value)
    statusLog,      \* history: the status values written to rec, in order
    appPc,          \* position of POST /process
    jobState,       \* BullMQ state of the job
    pc,             \* position of processJob
    probed,         \* result of getVideoResolution
    uploadSubDir,   \* the rung list built by processJob
    err,            \* the value caught by processJob's catch
    thrown,         \* processJob rejects (its catch block threw)
    urls,           \* processJob's local `urls`
    masterUrl,      \* processJob's local `masterUrl`
    dirs,           \* which of /tmp/<id>, /tmp/<id>/in, /tmp/<id>/out exist
    rungDirs,       \* indexes of the rung directories that exist
    masterFile,     \* content of <uploadDir>/index.m3u8, NoFile if absent
    rmLog,          \* history: the removals of the finally block that failed
    ffw,            \* transcode unit (hls_worker) state
    ffWritten,      \* number of files the transcode unit has produced
    ffmpegPromise,  \* promise returned by runFFmpegWorker
    upw,            \* upload unit (hls_upload_worker) state
    upDone,         \* number of rung directories the upload unit has read
    uploaded,       \* number of produced files the upload unit has uploaded
    uploadPromise,  \* promise returned by runUploadWorker
    events,         \* queue events emitted and not yet handled
    failedReason,   \* failedReason of the queue's failed event
    attemptsMade,   \* times the worker pool has started processJob for the job
    crashed         \* the worker process died on an unhandled rejection

vars == <<rec, statusLog, appPc, jobState, pc, probed, uploadSubDir, err,
          thrown, urls, masterUrl, dirs, rungDirs, masterFile, rmLog,
          ffw, ffWritten, ffmpegPromise, upw, upDone, uploaded,
          uploadPromise, events, failedReason, attemptsMade, crashed>>

-----------------------------------------------------------------------------
(* Bounds *)

\* files (segments + sub-manifest) the transcode unit produces per rung
MaxFiles == 2

\* longest rung list given to generateMasterPlaylist on its own
MaxRungs == 3

-----------------------------------------------------------------------------
(* Program constants *)

MinResolution == 360

\* job option `attempts` of videoQueue.add
Attempts == 1

\* a failed job goes back to the queue while it has attempts left
Retryable_OneMore(made) == made < Attempts + 1

Retryable(made) == made < Attempts

QUEUED == "queued"
CHECKING == "checking video resolutions"
PROCESSING == "Processing & Uploading"
GENERATING == "Generating master file"
UPLOADING == "Uploading master file"
COMPLETED == "completed"
ERROR == "error"

\* the order of section 4.6 of the specification, in the code's strings
StatusOrder == <<QUEUED, CHECKING, PROCESSING, GENERATING, UPLOADING, COMPLETED>>

\* probe results of the pipeline runs: portrait, portrait and low, low,
\* the smallest accepted input, and the 1920x1080 scenario
Resolutions ==
    { [width |-> 600,  height |-> 800],
      [width |-> 270,  height |-> 480],
      [width |-> 480,  height |-> 270],
      [width |-> 640,  height |-> 360],
      [width |-> 1920, height |-> 1080] }

\* probe results of the ladder runs: around every tier threshold
LadderWidths == {359, 360, 640, 854, 1280, 1920, 2880, 4320, 5000}

LadderHeights ==
    {270, 359, 360, 361, 479, 480, 481, 719, 720, 721, 1079, 1080, 1081,
     1619, 1620, 1621, 2429, 2430, 2431}

LadderResolutions == [width : LadderWidths, height : LadderHeights]

NoResolution == [width |-> 0, height |-> 0]

-----------------------------------------------------------------------------
(* Thrown values: an Error with a message, or a value that is no Error *)

Err(m) == [isError |-> TRUE, message |-> m]
NonError == [isError |-> FALSE, message |-> ""]
NoErr == [isError |-> FALSE, message |-> "<none>"]

RedisError == Err("Redis command failed")
ProbeError == Err("Command failed: ffprobe")
MkdirError == Err("EACCES: permission denied, mkdir")
WriteFileError == Err("ENOSPC: no space left on device, write")
CloudinaryError == Err("Cloudinary upload error for /tmp/id/out/index.m3u8: timeout")

AspectRatioError == Err("Aspect ratio should be landscape")

ResolutionTooLowError(width, height) ==
    Err("Video resolution too low: " \o ToString(width) \o "x" \o ToString(height))

\* err instanceof Error ? err.message : "Unkown error"
ErrMessage(e) == IF e.isError THEN e.message ELSE "Unkown error"

-----------------------------------------------------------------------------
(* Ladder construction *)

Rung(h, w) == [dir |-> ToString(h) \o "p", height |-> h, width |-> w]

BuildLadder_StrictThreshold(height) ==
    LET s0 == << Rung(360, 640) >>
        s1 == IF height > 480 THEN Append(s0, Rung(480, 854)) ELSE s0
        s2 == IF height >= 720 THEN Append(s1, Rung(720, 1280)) ELSE s1
        s3 == IF height >= 1080 THEN Append(s2, Rung(1080, 1920)) ELSE s2
        s4 == IF height >= 1620 THEN Append(s3, Rung(1620, 2880)) ELSE s3
        s5 == IF height >= 2430 THEN Append(s4, Rung(2430, 4320)) ELSE s4
    IN  s5

BuildLadder(height) ==
    LET s0 == << Rung(360, 640) >>
        s1 == IF height >= 480 THEN Append(s0, Rung(480, 854)) ELSE s0
        s2 == IF height >= 720 THEN Append(s1, Rung(720, 1280)) ELSE s1
        s3 == IF height >= 1080 THEN Append(s2, Rung(1080, 1920)) ELSE s2
        s4 == IF height >= 1620 THEN Append(s3, Rung(1620, 2880)) ELSE s3
        s5 == IF height >= 2430 THEN Append(s4, Rung(2430, 4320)) ELSE s4
    IN  s5

\* the checks of processJob before the ladder is built: the value thrown,
\* or NoErr when the resolution is accepted
IsPortrait_Swapped(r) == r.width > r.height

IsPortrait(r) == r.height > r.width

Min(a, b) == IF a < b THEN a ELSE b

Max(a, b) == IF a > b THEN a ELSE b

IsTooLow_Max(r) == Max(r.height, r.width) < MinResolution

IsTooLow(r) == Min(r.height, r.width) < MinResolution

ResolutionCheck(r) ==
    IF IsPortrait(r) THEN AspectRatioError
    ELSE IF IsTooLow(r) THEN ResolutionTooLowError(r.width, r.height)
    ELSE NoErr

-----------------------------------------------------------------------------
(* Master playlist *)

BandwidthIncrement == 250000

\* a file that does not exist
NoFile == "<absent>"

\* Array.prototype.join
RECURSIVE Join(_, _)
Join(lines, sep) ==
    IF Len(lines) = 0 THEN ""
    ELSE IF Len(lines) = 1 THEN lines[1]
    ELSE lines[1] \o sep \o Join(Tail(lines), sep)

\* the BANDWIDTH of the entry at array index i (from 0)
Bandwidth_FromIndex(i) == i * BandwidthIncrement

Bandwidth(i) == (i + 1) * BandwidthIncrement

\* the template literal of one stream entry, for array index i (from 0)
StreamInf(elem, i) ==
    "#EXT-X-STREAM-INF:BANDWIDTH=" \o ToString(Bandwidth(i))
        \o ",RESOLUTION=" \o ToString(elem.width) \o "x"
        \o ToString(elem.height) \o "\n"
        \o ToString(elem.height) \o "p/index.m3u8"

generateMasterPlaylist(sub) ==
    Join(<<"#EXTM3U">> \o [i \in DOMAIN sub |-> StreamInf(sub[i], i - 1)],
         "\n")

-----------------------------------------------------------------------------
(* Status Record writes (redis.hset: field-level upsert) *)

\* a write that replaces the whole hash
HSet_ReplaceAll(r, upd) == upd

HSet(r, upd) == upd @@ r

QueuedWrite ==
    [status |-> QUEUED, progress |-> "0", error |-> "", createdAt |-> "now"]

CheckingWrite == [status |-> CHECKING, progress |-> "5"]

ProcessingWrite == [status |-> PROCESSING, progress |-> "20"]

GeneratingWrite_WrongStatus == [status |-> UPLOADING, progress |-> "20"]

GeneratingWrite == [status |-> GENERATING, progress |-> "20"]

UploadingWrite == [status |-> UPLOADING, progress |-> "20"]

\* JSON.stringify(urls)
JSONStringify(v) == ToString(v)

CompletedWrite(mUrl, u) ==
    [status |-> COMPLETED, progress |-> "100", masterUrl |-> mUrl,
     urls |-> JSONStringify(u)]

ErrorWrite_ResetsProgress(e) ==
    [status |-> ERROR, error |-> ErrMessage(e), progress |-> "0"]

ErrorWrite(e) == [status |-> ERROR, error |-> ErrMessage(e)]

ObserverFailedWrite_ResetsProgress(reason) ==
    [status |-> ERROR, error |-> reason, progress |-> "0"]

ObserverFailedWrite(reason) == [status |-> ERROR, error |-> reason]

ObserverCompletedWrite == [status |-> COMPLETED, progress |-> "100"]

\* a successful hset of upd: the record and the history of status values
Written(upd) ==
    /\ rec' = HSet(rec, upd)
    /\ statusLog' = Append(statusLog, upd.status)

NotWritten == UNCHANGED <<rec, statusLog>>

-----------------------------------------------------------------------------
(* Promises *)

Pending == [state |-> "pending", value |-> NoErr]
Resolved(v) == [state |-> "resolved", value |-> v]
Rejected(e) == [state |-> "rejected", value |-> e]

\* resolve/reject of a settled promise is a no-op
Settle(p, outcome) == IF p.state = "pending" THEN outcome ELSE p

-----------------------------------------------------------------------------
Init ==
    /\ rec = [f \in {} |-> ""]
    /\ statusLog = << >>
    /\ appPc = "setQueued"
    /\ jobState = "none"
    /\ pc = "idle"
    /\ probed = NoResolution
    /\ uploadSubDir = << >>
    /\ err = NoErr
    /\ thrown = NoErr
    /\ urls = << >>
    /\ masterUrl = ""
    /\ dirs = [root |-> TRUE, in |-> TRUE, out |-> TRUE]
    /\ rungDirs = {}
    /\ masterFile = NoFile
    /\ rmLog = {}
    /\ ffw = "none"
    /\ ffWritten = 0
    /\ ffmpegPromise = Pending
    /\ upw = "none"
    /\ upDone = 0
    /\ uploaded = 0
    /\ uploadPromise = Pending
    /\ events = {}
    /\ failedReason = ""
    /\ attemptsMade = 0
    /\ crashed = FALSE

-----------------------------------------------------------------------------
(* POST /process: the Status Record is created, then the job is enqueued *)

recVars == <<rec, statusLog>>
runVars == <<pc, probed, uploadSubDir, err, thrown, urls, masterUrl>>
fsVars == <<dirs, rungDirs, masterFile, rmLog>>
ffVars == <<ffw, ffWritten, ffmpegPromise>>
upVars == <<upw, upDone, uploaded, uploadPromise>>
qVars == <<jobState, events, failedReason, attemptsMade>>

SubmitSetQueued ==
    /\ appPc = "setQueued"
    /\ \E ok \in BOOLEAN :
         IF ok
         THEN Written(QueuedWrite) /\ appPc' = "addJob"
         ELSE NotWritten /\ appPc' = "rejected"
    /\ UNCHANGED <<runVars, fsVars, ffVars, upVars, qVars, crashed>>

SubmitAddJob ==
    /\ appPc = "addJob"
    /\ \E ok \in BOOLEAN :
         IF ok
         THEN appPc' = "accepted" /\ jobState' = "waiting"
         ELSE appPc' = "rejected" /\ jobState' = jobState
    /\ UNCHANGED <<recVars, runVars, fsVars, ffVars, upVars, events,
                   failedReason, attemptsMade, crashed>>

-----------------------------------------------------------------------------
(* processJob *)

Running == jobState = "active" /\ ~crashed

\* the worker pool takes the job and calls processJob
StartJob ==
    /\ jobState = "waiting"
    /\ ~crashed
    /\ jobState' = "active"
    /\ attemptsMade' = attemptsMade + 1
    /\ pc' = "setChecking"
    /\ UNCHANGED <<recVars, appPc, probed, uploadSubDir, err, thrown, urls,
                   masterUrl, fsVars, ffVars, upVars, events, failedReason,
                   crashed>>

\* await redis.hset(...) inside the try block: on rejection control passes
\* to the catch block with the Redis error
StatusStep(upd, to) ==
    /\ \E ok \in BOOLEAN :
         IF ok
         THEN Written(upd) /\ pc' = to /\ err' = err
         ELSE NotWritten /\ pc' = "catch" /\ err' = RedisError
    /\ UNCHANGED <<appPc, probed, uploadSubDir, thrown, urls, masterUrl,
                   fsVars, ffVars, upVars, qVars, crashed>>

SetChecking ==
    /\ Running
    /\ pc = "setChecking"
    /\ StatusStep(CheckingWrite, "probe")

\* the two checks and the ladder construction on the probed resolution r
ProbeResult(r) ==
    /\ probed' = r
    /\ IF ResolutionCheck(r) # NoErr
       THEN /\ pc' = "catch"
            /\ err' = ResolutionCheck(r)
            /\ UNCHANGED uploadSubDir
       ELSE /\ pc' = "mkdir"
            /\ err' = err
            /\ uploadSubDir' = BuildLadder(r.height)

\* getVideoResolution rejects, or returns a resolution
Probe ==
    /\ Running
    /\ pc = "probe"
    /\ \/ /\ pc' = "catch"
          /\ err' = ProbeError
          /\ UNCHANGED <<probed, uploadSubDir>>
       \/ \E r \in Resolutions : ProbeResult(r)
    /\ UNCHANGED <<recVars, appPc, thrown, urls, masterUrl, fsVars, ffVars,
                   upVars, qVars, crashed>>

\* the same step over the resolutions around the tier thresholds
LadderProbe ==
    /\ Running
    /\ pc = "probe"
    /\ \E r \in LadderResolutions : ProbeResult(r)
    /\ UNCHANGED <<recVars, appPc, thrown, urls, masterUrl, fsVars, ffVars,
                   upVars, qVars, crashed>>

\* Promise.all over the mkdirs resolves iff every mkdir resolved
MkdirSucceeded_AllSettled(created) == created \subseteq DOMAIN uploadSubDir

MkdirSucceeded(created) == created = DOMAIN uploadSubDir

\* await Promise.all(mkdir ...), then runFFmpegWorker and runUploadWorker
\* are called (both units start) before the next await
Mkdir ==
    /\ Running
    /\ pc = "mkdir"
    /\ \E created \in SUBSET (DOMAIN uploadSubDir) :
         /\ rungDirs' = created
         /\ IF MkdirSucceeded(created)
            THEN /\ ffw' = "running"
                 /\ upw' = "running"
                 /\ pc' = "setProcessing"
                 /\ err' = err
            ELSE /\ pc' = "catch"
                 /\ err' = MkdirError
                 /\ UNCHANGED <<ffw, upw>>
    /\ UNCHANGED <<recVars, appPc, probed, uploadSubDir, thrown, urls,
                   masterUrl, dirs, masterFile, rmLog, ffWritten,
                   ffmpegPromise, upDone, uploaded, uploadPromise, qVars,
                   crashed>>

SetProcessing ==
    /\ Running
    /\ pc = "setProcessing"
    /\ StatusStep(ProcessingWrite, "awaitFfmpeg")

\* an await continues once its promise is settled
FfmpegAwaited_NotAwaited == ffmpegPromise.state \in {"pending", "resolved", "rejected"}

FfmpegAwaited == ffmpegPromise.state # "pending"

UploadAwaited == uploadPromise.state # "pending"

\* await ffmpegPromise
AwaitFfmpeg ==
    /\ Running
    /\ pc = "awaitFfmpeg"
    /\ FfmpegAwaited
    /\ IF ffmpegPromise.state = "rejected"
       THEN pc' = "catch" /\ err' = ffmpegPromise.value
       ELSE pc' = "awaitUpload" /\ err' = err
    /\ UNCHANGED <<recVars, appPc, probed, uploadSubDir, thrown, urls,
                   masterUrl, fsVars, ffVars, upVars, qVars, crashed>>

\* const urls = await uploadPromise
AwaitUpload ==
    /\ Running
    /\ pc = "awaitUpload"
    /\ UploadAwaited
    /\ IF uploadPromise.state = "resolved"
       THEN pc' = "setGenerating" /\ err' = err
            /\ urls' = uploadPromise.value.urls
       ELSE pc' = "catch" /\ err' = uploadPromise.value /\ urls' = urls
    /\ UNCHANGED <<recVars, appPc, probed, uploadSubDir, thrown, masterUrl,
                   fsVars, ffVars, upVars, qVars, crashed>>

SetGenerating ==
    /\ Running
    /\ pc = "setGenerating"
    /\ StatusStep(GeneratingWrite, "writeMaster")

\* await fs.writeFile(masterPlaylistPath, masterPlaylistContent.trim()): the
\* content starts with "#" and ends with a letter or a digit, so trim()
\* has nothing to remove
WriteMaster ==
    /\ Running
    /\ pc = "writeMaster"
    /\ \E ok \in BOOLEAN :
         IF ok /\ dirs.out
         THEN /\ masterFile' = generateMasterPlaylist(uploadSubDir)
              /\ pc' = "setUploading" /\ err' = err
         ELSE masterFile' = masterFile /\ pc' = "catch"
              /\ err' = WriteFileError
    /\ UNCHANGED <<recVars, appPc, probed, uploadSubDir, thrown, urls,
                   masterUrl, dirs, rungDirs, rmLog, ffVars, upVars, qVars,
                   crashed>>

SetUploading ==
    /\ Running
    /\ pc = "setUploading"
    /\ StatusStep(UploadingWrite, "uploadMaster")

\* const masterUrl = await uploadToCloudinary(masterPlaylistPath, videoId)
UploadMaster ==
    /\ Running
    /\ pc = "uploadMaster"
    /\ \E ok \in BOOLEAN :
         IF ok
         THEN masterUrl' = "http://res.cloudinary.com/id/index.m3u8"
              /\ pc' = "setCompleted" /\ err' = err
         ELSE masterUrl' = masterUrl /\ pc' = "catch"
              /\ err' = CloudinaryError
    /\ UNCHANGED <<recVars, appPc, probed, uploadSubDir, thrown, urls,
                   fsVars, ffVars, upVars, qVars, crashed>>

SetCompleted ==
    /\ Running
    /\ pc = "setCompleted"
    /\ StatusStep(CompletedWrite(masterUrl, urls), "finally")

\* the catch block: its own hset may reject, and then processJob rejects
Catch ==
    /\ Running
    /\ pc = "catch"
    /\ \/ Written(ErrorWrite(err)) /\ thrown' = thrown
       \/ NotWritten /\ thrown' = RedisError
    /\ pc' = "finally"
    /\ UNCHANGED <<appPc, probed, uploadSubDir, err, urls, masterUrl, fsVars,
                   ffVars, upVars, qVars, crashed>>

\* finally: Promise.all([rm(uploadDir), rm(inputDir)]) with a removal
\* failure escalated instead of logged
RmDirs_FailurePropagates ==
    /\ Running
    /\ pc = "finally"
    /\ \E okOut \in BOOLEAN, okIn \in BOOLEAN :
         /\ dirs' = [dirs EXCEPT !.out = IF okOut THEN FALSE ELSE @,
                                 !.in = IF okIn THEN FALSE ELSE @]
         /\ rungDirs' = IF okOut THEN {} ELSE rungDirs
         /\ masterFile' = IF okOut THEN NoFile ELSE masterFile
         /\ rmLog' = rmLog \cup (IF okOut THEN {} ELSE {"out"})
                           \cup (IF okIn THEN {} ELSE {"in"})
         /\ thrown' = IF okOut /\ okIn THEN thrown
                      ELSE Err("EBUSY: resource busy or locked, rm")
    /\ pc' = "rmRoot"
    /\ UNCHANGED <<recVars, appPc, probed, uploadSubDir, err, urls,
                   masterUrl, ffVars, upVars, qVars, crashed>>

\* finally: Promise.all([rm(uploadDir), rm(inputDir)]), failures logged
RmDirs ==
    /\ Running
    /\ pc = "finally"
    /\ \E okOut \in BOOLEAN, okIn \in BOOLEAN :
         /\ dirs' = [dirs EXCEPT !.out = IF okOut THEN FALSE ELSE @,
                                 !.in = IF okIn THEN FALSE ELSE @]
         /\ rungDirs' = IF okOut THEN {} ELSE rungDirs
         /\ masterFile' = IF okOut THEN NoFile ELSE masterFile
         /\ rmLog' = rmLog \cup (IF okOut THEN {} ELSE {"out"})
                           \cup (IF okIn THEN {} ELSE {"in"})
    /\ pc' = "rmRoot"
    /\ UNCHANGED <<recVars, appPc, probed, uploadSubDir, err, thrown, urls,
                   masterUrl, ffVars, upVars, qVars, crashed>>

\* finally: rm(/tmp/<videoId>), failure logged; then processJob settles and
\* the queue moves the job to completed or failed and emits the event
RmRoot ==
    /\ Running
    /\ pc = "rmRoot"
    /\ \E ok \in BOOLEAN :
         IF ok
         THEN /\ dirs' = [root |-> FALSE, in |-> FALSE, out |-> FALSE]
              /\ rungDirs' = {}
              /\ masterFile' = NoFile
              /\ rmLog' = rmLog
         ELSE /\ rmLog' = rmLog \cup {"root"}
              /\ UNCHANGED <<dirs, rungDirs, masterFile>>
    /\ pc' = "done"
    /\ IF thrown = NoErr
       THEN /\ jobState' = "completed"
            /\ events' = events \cup {"completed"}
            /\ failedReason' = failedReason
       ELSE IF Retryable(attemptsMade)
       THEN /\ jobState' = "waiting"
            /\ UNCHANGED <<events, failedReason>>
       ELSE /\ jobState' = "failed"
            /\ events' = events \cup {"failed"}
            /\ failedReason' = thrown.message
    /\ UNCHANGED <<recVars, appPc, probed, uploadSubDir, err, thrown, urls,
                   masterUrl, ffVars, upVars, attemptsMade, crashed>>

-----------------------------------------------------------------------------
(* The promise wrappers of the two units.  A promise that is rejected while *)
(* no handler is attached to it (processJob is not at the await of that    *)
(* promise) is an unhandled rejection: Node ends the process.              *)

FfmpegHandled == pc = "awaitFfmpeg"

UploadHandled == pc = "awaitUpload"

FfmpegResolve ==
    /\ ffmpegPromise' = Settle(ffmpegPromise, Resolved(NoErr))
    /\ crashed' = crashed

FfmpegReject(e) ==
    /\ ffmpegPromise' = Settle(ffmpegPromise, Rejected(e))
    /\ crashed' = (ffmpegPromise.state = "pending" /\ ~FfmpegHandled)

UploadResolve(u) ==
    /\ uploadPromise' = Settle(uploadPromise, Resolved([urls |-> u]))
    /\ crashed' = crashed

UploadReject(e) ==
    /\ uploadPromise' = Settle(uploadPromise, Rejected(e))
    /\ crashed' = (uploadPromise.state = "pending" /\ ~UploadHandled)

-----------------------------------------------------------------------------
(* Transcode unit (dist/worker/hls_worker.js) *)

TotalFiles == Len(uploadSubDir) * MaxFiles

\* files present in rung directory i: the unit fills the rungs in list order
FilesIn(i) ==
    IF i \notin rungDirs THEN 0
    ELSE Min(MaxFiles, IF ffWritten > (i - 1) * MaxFiles
                       THEN ffWritten - (i - 1) * MaxFiles ELSE 0)

\* the unit reports success only once every rung has its complete file set
TranscodeComplete == ffWritten = TotalFiles

\* the unit writes its next file into the rung directory it belongs to
FfmpegWrite ==
    /\ ~crashed
    /\ ffw = "running"
    /\ ffWritten < TotalFiles
    /\ (ffWritten \div MaxFiles) + 1 \in rungDirs
    /\ ffWritten' = ffWritten + 1
    /\ UNCHANGED <<recVars, appPc, runVars, fsVars, ffw, ffmpegPromise,
                   upVars, qVars, crashed>>

\* worker.on("message"): success only once every rung is complete
FfmpegOnMessage ==
    /\ ~crashed
    /\ ffw = "running"
    /\ \/ /\ TranscodeComplete
          /\ FfmpegResolve
       \/ \E e \in {"", "ffmpeg exited with code 1"} :
            FfmpegReject(Err(IF e # "" THEN e ELSE "FFmpeg worker error"))
    /\ ffw' = "posted"
    /\ UNCHANGED <<recVars, appPc, runVars, fsVars, ffWritten, upVars, qVars>>

\* worker.on("error", reject): an uncaught exception of the unit
FfmpegOnError ==
    /\ ~crashed
    /\ ffw \in {"running", "posted"}
    /\ \E e \in {Err("uncaught exception in hls_worker"), NonError} :
         FfmpegReject(e)
    /\ ffw' = "errored"
    /\ UNCHANGED <<recVars, appPc, runVars, fsVars, ffWritten, upVars, qVars>>

\* worker.on("exit")
FfmpegOnExit ==
    /\ ~crashed
    /\ ffw \in {"running", "posted", "errored"}
    /\ \E code \in {0, 1} :
         /\ ffw = "errored" => code = 1
         /\ IF code # 0
            THEN FfmpegReject(Err("FFmpeg worker exited with code "
                                  \o ToString(code)))
            ELSE UNCHANGED <<ffmpegPromise, crashed>>
    /\ ffw' = "exited"
    /\ UNCHANGED <<recVars, appPc, runVars, fsVars, ffWritten, upVars, qVars>>

-----------------------------------------------------------------------------
(* Upload unit (dist/worker/hls_upload_worker.js) *)

\* the urls of a success message: one entry per rung
UrlsOf(sub) ==
    [i \in DOMAIN sub |->
        [type |-> sub[i].height,
         url |-> "http://res.cloudinary.com/id/" \o sub[i].dir \o "/index.m3u8"]]

\* the unit reports success only once it has read every rung directory
UploadComplete == upDone = Len(uploadSubDir)

\* the unit reads its next rung directory and uploads the files it finds
UploadRung ==
    /\ ~crashed
    /\ upw = "running"
    /\ upDone < Len(uploadSubDir)
    /\ upDone + 1 \in rungDirs
    /\ uploaded' = uploaded + FilesIn(upDone + 1)
    /\ upDone' = upDone + 1
    /\ UNCHANGED <<recVars, appPc, runVars, fsVars, ffVars, upw,
                   uploadPromise, qVars, crashed>>

\* worker.on("message"): a success message with urls resolves, a success
\* message without urls settles nothing, a failure message rejects
UploadOnMessage ==
    /\ ~crashed
    /\ upw = "running"
    /\ \/ /\ UploadComplete
          /\ UploadResolve(UrlsOf(uploadSubDir))
       \/ /\ UploadComplete
          /\ UNCHANGED <<uploadPromise, crashed>>
       \/ UploadReject(Err("Cloudinary upload error for segment: timeout"))
    /\ upw' = "posted"
    /\ UNCHANGED <<recVars, appPc, runVars, fsVars, ffVars, upDone, uploaded,
                   qVars>>

\* worker.on("error", reject)
UploadOnError ==
    /\ ~crashed
    /\ upw \in {"running", "posted"}
    /\ \E e \in {Err("uncaught exception in hls_upload_worker"), NonError} :
         UploadReject(e)
    /\ upw' = "errored"
    /\ UNCHANGED <<recVars, appPc, runVars, fsVars, ffVars, upDone, uploaded,
                   qVars>>

\* worker.on("exit")
UploadOnExit ==
    /\ ~crashed
    /\ upw \in {"running", "posted", "errored"}
    /\ \E code \in {0, 1} :
         /\ upw = "errored" => code = 1
         /\ IF code # 0
            THEN UploadReject(Err("Upload worker exited with code "
                                  \o ToString(code)))
            ELSE UNCHANGED <<uploadPromise, crashed>>
    /\ upw' = "exited"
    /\ UNCHANGED <<recVars, appPc, runVars, fsVars, ffVars, upDone, uploaded,
                   qVars>>

-----------------------------------------------------------------------------
(* Queue observer.  queue.getJob may find the job or not (it is removed on  *)
(* completion and on failure); a rejected hset in the async listener is an *)
(* unhandled rejection.                                                    *)

ObserverWrite(ev, upd) ==
    /\ events' = events \ {ev}
    /\ \E found \in BOOLEAN, ok \in BOOLEAN :
         /\ IF found /\ ok THEN Written(upd) ELSE NotWritten
         /\ crashed' = (found /\ ~ok)
    /\ UNCHANGED <<appPc, runVars, fsVars, ffVars, upVars, jobState,
                   failedReason, attemptsMade>>

OnFailed ==
    /\ ~crashed
    /\ "failed" \in events
    /\ ObserverWrite("failed", ObserverFailedWrite(failedReason))

OnCompleted ==
    /\ ~crashed
    /\ "completed" \in events
    /\ ObserverWrite("completed", ObserverCompletedWrite)

-----------------------------------------------------------------------------
Next ==
    \/ SubmitSetQueued
    \/ SubmitAddJob
    \/ StartJob
    \/ SetChecking
    \/ Probe
    \/ Mkdir
    \/ SetProcessing
    \/ AwaitFfmpeg
    \/ AwaitUpload
    \/ SetGenerating
    \/ WriteMaster
    \/ SetUploading
    \/ UploadMaster
    \/ SetCompleted
    \/ Catch
    \/ RmDirs
    \/ RmRoot
    \/ FfmpegWrite
    \/ FfmpegOnMessage
    \/ FfmpegOnError
    \/ FfmpegOnExit
    \/ UploadRung
    \/ UploadOnMessage
    \/ UploadOnError
    \/ UploadOnExit
    \/ OnFailed
    \/ OnCompleted

Spec == Init /\ [][Next]_vars

\* the same behaviours under fairness: the queue delivers a waiting job, and
\* every store, filesystem, upload and unit step that can happen eventually
\* returns or fails, so a step is taken as long as one is possible
FairSpec == Init /\ [][Next]_vars /\ WF_vars(Next)

\* the pipeline up to the ladder construction, over LadderResolutions
LadderNext ==
    \/ SubmitSetQueued
    \/ SubmitAddJob
    \/ StartJob
    \/ SetChecking
    \/ LadderProbe

SpecLadder == Init /\ [][LadderNext]_vars

\* generateMasterPlaylist on its own: the rungs and rung lists it is given
PlaylistRungs ==
    { Rung(360, 640), Rung(480, 854), Rung(720, 1280), Rung(1080, 1920),
      Rung(1620, 2880), Rung(2430, 4320),
      [dir |-> "low", height |-> 240, width |-> 426] }

RungLists ==
    UNION { [1..n -> PlaylistRungs] : n \in 0..MaxRungs }
      \cup { BuildLadder(h) : h \in LadderHeights }

PlaylistInit ==
    /\ rec = [f \in {} |-> ""]
    /\ statusLog = << >>
    /\ appPc = "setQueued"
    /\ jobState = "none"
    /\ pc = "idle"
    /\ probed = NoResolution
    /\ uploadSubDir \in RungLists
    /\ err = NoErr
    /\ thrown = NoErr
    /\ urls = << >>
    /\ masterUrl = ""
    /\ dirs = [root |-> TRUE, in |-> TRUE, out |-> TRUE]
    /\ rungDirs = {}
    /\ masterFile = NoFile
    /\ rmLog = {}
    /\ ffw = "none"
    /\ ffWritten = 0
    /\ ffmpegPromise = Pending
    /\ upw = "none"
    /\ upDone = 0
    /\ uploaded = 0
    /\ uploadPromise = Pending
    /\ events = {}
    /\ failedReason = ""
    /\ attemptsMade = 0
    /\ crashed = FALSE

\* one call of generateMasterPlaylist on the rung list, its result kept as
\* the manifest content; the call may be repeated
GeneratePlaylist ==
    /\ masterFile' = generateMasterPlaylist(uploadSubDir)
    /\ UNCHANGED <<recVars, appPc, runVars, dirs, rungDirs, rmLog, ffVars,
                   upVars, qVars, crashed>>

PlaylistNext == GeneratePlaylist

SpecPlaylist == PlaylistInit /\ [][PlaylistNext]_vars

-----------------------------------------------------------------------------
(* Properties *)

HasStatus(v) == "status" \in DOMAIN rec /\ rec.status = v

\* position of a status value in the order of section 4.6
Rank(v) == CHOOSE i \in DOMAIN StatusOrder : StatusOrder[i] = v

IsPrefix(a, b) == Len(a) <= Len(b) /\ SubSeq(b, 1, Len(a)) = a

\* processJob has left its try/catch and the queue observer has not yet
\* handled the event of the job's end
AtTermination ==
    \/ pc \in {"finally", "rmRoot"}
    \/ pc = "done" /\ events # {}

HasProbed == probed # NoResolution

AspectMessage == "Aspect ratio should be landscape"

TooLowMessage ==
    "Video resolution too low: " \o ToString(probed.width) \o "x"
        \o ToString(probed.height)

\* C1: once the record's status is error it never changes again, and before
\* that the status only moves forward in the order of section 4.6, whoever
\* writes (processJob or the queue observer).
C1_ErrorTerminalStatusForward ==
    [][ "status" \in DOMAIN rec =>
          /\ rec.status = ERROR => rec'.status = ERROR
          /\ (rec.status # ERROR /\ rec'.status # ERROR)
                => Rank(rec.status) <= Rank(rec'.status) ]_vars

\* C2: masterUrl and urls are set in the record if and only if its status
\* is completed.
C2_UrlsIffCompleted ==
    ({"masterUrl", "urls"} \subseteq DOMAIN rec) <=> HasStatus(COMPLETED)

\* C3: while no step of the job has failed, the status values written are a
\* prefix of queued, checking, processing, generating, uploading, completed;
\* once processJob has left its try block they are exactly that list, and
\* any later write (the observer's) repeats completed.
C3_SuccessfulStatusSequence ==
    err = NoErr =>
      /\ Len(statusLog) <= Len(StatusOrder) => IsPrefix(statusLog, StatusOrder)
      /\ Len(statusLog) > Len(StatusOrder) =>
           /\ SubSeq(statusLog, 1, Len(StatusOrder)) = StatusOrder
           /\ \A i \in (Len(StatusOrder) + 1)..Len(statusLog) :
                statusLog[i] = COMPLETED
      /\ pc \in {"finally", "rmRoot", "done"} =>
           Len(statusLog) >= Len(StatusOrder)

C3_Witness ==
    /\ pc = "done"
    /\ err = NoErr
    /\ statusLog = StatusOrder
    /\ HasStatus(COMPLETED)

\* C4: after processJob has terminated, neither the input nor the output
\* working directory exists.
C4_DirsRemovedAfterTermination ==
    pc = "done" => ~dirs.in /\ ~dirs.out

\* C5: when the Job Runner has written completed (the only write that sets
\* masterUrl), every file the transcode unit produced has been uploaded.
C5_AllProducedFilesUploaded ==
    "masterUrl" \in DOMAIN rec => uploaded = ffWritten

Tiers ==
    << <<360, 640>>, <<480, 854>>, <<720, 1280>>, <<1080, 1920>>,
       <<1620, 2880>>, <<2430, 4320>> >>

HeightsWidths(sub) == [i \in DOMAIN sub |-> <<sub[i].height, sub[i].width>>]

TiersUpTo(h) ==
    LET Fits(t) == t[1] <= h IN SelectSeq(Tiers, Fits)

\* C8: for a probe with width >= height and min(width, height) >= 360 the
\* rung list is, in ascending order, exactly the tiers whose height is at
\* most the source height, with their canonical widths; it starts with the
\* 360p rung and holds no rung higher than the source.
C8_LadderIsTiersUpToHeight ==
    (HasProbed /\ probed.width >= probed.height
               /\ Min(probed.width, probed.height) >= 360) =>
      /\ HeightsWidths(uploadSubDir) = TiersUpTo(probed.height)
      /\ uploadSubDir[1].height = 360
      /\ \A i \in DOMAIN uploadSubDir :
           /\ uploadSubDir[i].height <= probed.height
           /\ uploadSubDir[i].dir = ToString(uploadSubDir[i].height) \o "p"
      /\ \A i \in DOMAIN uploadSubDir : \A j \in DOMAIN uploadSubDir :
           i < j => uploadSubDir[i].height < uploadSubDir[j].height

C8_Witness ==
    /\ probed = [width |-> 1920, height |-> 1080]
    /\ HeightsWidths(uploadSubDir) =
         << <<360, 640>>, <<480, 854>>, <<720, 1280>>, <<1080, 1920>> >>

\* the failures that precede the launch of the units
FailedBeforeLaunch ==
    \/ err \in {ProbeError, AspectRatioError, MkdirError}
    \/ err.isError /\ HasProbed /\ err.message = TooLowMessage

\* C9: a unit is launched only in a step that finds the probe done, the
\* resolution landscape and at least 360, and every rung directory created;
\* after a failure of the probe, of a check or of a mkdir no unit is ever
\* launched.
C9_UnitsLaunchedOnlyAfterChecks ==
    /\ [](FailedBeforeLaunch => ffw = "none" /\ upw = "none")
    /\ [][ ((ffw = "none" /\ ffw' # "none") \/ (upw = "none" /\ upw' # "none"))
             => /\ HasProbed
                /\ probed.width >= probed.height
                /\ Min(probed.width, probed.height) >= 360
                /\ uploadSubDir # << >>
                /\ rungDirs' = DOMAIN uploadSubDir
                /\ ffw' = "running" /\ upw' = "running" ]_vars

C9_Witness ==
    /\ ffw = "running"
    /\ upw = "running"
    /\ Len(uploadSubDir) = 4
    /\ rungDirs = 1..4
    /\ pc = "setProcessing"

\* C10: processJob is at or past `await uploadPromise`, has taken the urls
\* of the upload unit, or has written generating_master, uploading_master
\* or its completed record, only if the transcode unit signalled success.
C10_NothingFinalBeforeTranscodeSuccess ==
    ( \/ pc \in {"awaitUpload", "setGenerating", "writeMaster",
                 "setUploading", "uploadMaster", "setCompleted"}
      \/ urls # << >>
      \/ masterUrl # ""
      \/ "masterUrl" \in DOMAIN rec
      \/ \E i \in DOMAIN statusLog : statusLog[i] \in {GENERATING, UPLOADING} )
    => ffmpegPromise.state = "resolved" /\ ffWritten = TotalFiles

C10_Witness ==
    /\ pc = "setGenerating"
    /\ urls = UrlsOf(uploadSubDir)
    /\ Len(uploadSubDir) = 4
    /\ ffmpegPromise.state = "resolved"

\* the failure kinds of section 7 as values caught by processJob: every
\* caught value except a rejected status write and a failed manifest write
ListedFailure == err \notin {NoErr, RedisError, WriteFileError}

UnitFailed ==
    ffmpegPromise.state = "rejected" \/ uploadPromise.state = "rejected"

\* C11: a failure of one of the kinds of section 7 never escapes processJob:
\* once processJob has ended after such a failure it has returned normally
\* and the record's status is error, and a failure of a unit never ends the
\* worker process while processJob runs.
C11_ListedFailuresCaught ==
    /\ (pc = "done" /\ ListedFailure) => thrown = NoErr /\ HasStatus(ERROR)
    /\ (pc # "done" /\ UnitFailed) => ~crashed

\* C12: when a step of processJob failed and the catch block's write was
\* accepted, that one write set status = error together with the message of
\* the caught value ('Unkown error' for a value that is no Error); and when
\* the upload unit failed, the worker process lives on, the job ends with
\* status error and the upload failure's message, and neither masterUrl nor
\* urls is in the record.
C12_ErrorFieldIsCausingMessage ==
    /\ (pc \in {"finally", "rmRoot", "done"} /\ err # NoErr /\ thrown = NoErr)
          => /\ "error" \in DOMAIN rec
             /\ rec.error = ErrMessage(err)
             /\ ERROR \in {statusLog[i] : i \in DOMAIN statusLog}
    /\ uploadPromise.state = "rejected" =>
          /\ ~crashed
          /\ {"masterUrl", "urls"} \cap DOMAIN rec = {}
          /\ AtTermination =>
                /\ HasStatus(ERROR)
                /\ rec.error = ErrMessage(uploadPromise.value)

\* C13: the steps of the finally block leave the record and the outcome of
\* processJob as they were, whether their removals succeed or fail: the
\* removal of the temp root follows the removal of the two directories, and
\* processJob then settles as it would have without cleanup.
C13_CleanupFailuresSwallowed ==
    [][ (pc \in {"finally", "rmRoot"} /\ pc' # pc) =>
          /\ rec' = rec
          /\ statusLog' = statusLog
          /\ thrown' = thrown
          /\ pc = "finally" => pc' = "rmRoot"
          /\ pc = "rmRoot" =>
               /\ pc' = "done"
               /\ jobState' = IF thrown = NoErr THEN "completed" ELSE "failed"
      ]_vars

C13_Witness ==
    /\ pc = "done"
    /\ rmLog = {"out", "in", "root"}
    /\ jobState = "completed"
    /\ events = {"completed"}
    /\ HasStatus(COMPLETED)
    /\ "masterUrl" \in DOMAIN rec
    /\ rec.progress = "100"

\* the fields named by the write that a step made, told by the status value
\* it wrote and by who wrote it
NamedFields ==
    LET written == statusLog'[Len(statusLog')]
    IN  IF written = QUEUED THEN {"status", "progress", "error", "createdAt"}
        ELSE IF written = ERROR THEN {"status", "error"}
        ELSE IF written = COMPLETED /\ pc = "setCompleted"
             THEN {"status", "progress", "masterUrl", "urls"}
        ELSE {"status", "progress"}

\* C14: a step that writes the record keeps every field the record had and
\* changes only fields named by its write, a step that does not write leaves
\* the record as it was, and the Job Runner's completed write and the
\* observer's completed write give the same record in either order.
C14_WritesChangeOnlyNamedFields ==
    [][ /\ DOMAIN rec \subseteq DOMAIN rec'
        /\ IF statusLog' = statusLog
           THEN rec' = rec
           ELSE /\ DOMAIN rec' = DOMAIN rec \cup NamedFields
                /\ \A f \in DOMAIN rec \ NamedFields : rec'[f] = rec[f]
        /\ pc = "setCompleted" =>
             HSet(HSet(rec, CompletedWrite(masterUrl, urls)),
                  ObserverCompletedWrite)
               = HSet(HSet(rec, ObserverCompletedWrite),
                      CompletedWrite(masterUrl, urls)) ]_vars

C14_Witness ==
    /\ statusLog = StatusOrder \o <<COMPLETED>>
    /\ events = {}
    /\ Len(uploadSubDir) = 4
    /\ rec = [status |-> COMPLETED, progress |-> "100", error |-> "",
              createdAt |-> "now", masterUrl |-> masterUrl,
              urls |-> JSONStringify(UrlsOf(uploadSubDir))]

\* the progress value of each milestone of section 4.6
MilestoneProgress(v) ==
    IF v = QUEUED THEN "0"
    ELSE IF v = CHECKING THEN "5"
    ELSE IF v = COMPLETED THEN "100"
    ELSE "20"

\* the last status written that is not error
LastMilestone ==
    LET reached == {i \in DOMAIN statusLog : statusLog[i] # ERROR}
        last == CHOOSE i \in reached : \A j \in reached : j <= i
    IN  statusLog[last]

\* C15: the record's status is one of the six milestones or error; with a
\* milestone status its progress is that milestone's value, and with status
\* error its progress is the value of the last milestone written.
C15_StatusProgressPairs ==
    "status" \in DOMAIN rec =>
      /\ rec.status \in {StatusOrder[i] : i \in DOMAIN StatusOrder} \cup {ERROR}
      /\ "progress" \in DOMAIN rec
      /\ rec.status # ERROR => rec.progress = MilestoneProgress(rec.status)
      /\ rec.status = ERROR =>
           /\ rec.progress = MilestoneProgress(LastMilestone)
           /\ LastMilestone # COMPLETED

C15_Witness ==
    /\ HasStatus(ERROR)
    /\ err = CloudinaryError
    /\ rec.progress = "20"
    /\ LastMilestone = UPLOADING
    /\ pc = "done"

\* the manifest as section 4.5 describes it, built from the end of the list
RECURSIVE ManifestOf(_)
ManifestOf(sub) ==
    IF sub = << >> THEN "#EXTM3U"
    ELSE LET n == Len(sub)
             last == sub[n]
         IN  ManifestOf(SubSeq(sub, 1, n - 1))
               \o "\n#EXT-X-STREAM-INF:BANDWIDTH=" \o ToString(n * 250000)
               \o ",RESOLUTION=" \o ToString(last.width) \o "x"
               \o ToString(last.height)
               \o "\n" \o ToString(last.height) \o "p/index.m3u8"

\* C16: the output of generateMasterPlaylist is the header line followed,
\* rung by rung in list order, by the entry with the rung's width x height,
\* the path <height>p/index.m3u8 and BANDWIDTH = position * 250000; the
\* bandwidths increase strictly along the list; and a second call on the
\* same list gives the content of the first.
C16_MasterPlaylistOfRungList ==
    /\ [](masterFile # NoFile =>
            /\ masterFile = ManifestOf(uploadSubDir)
            /\ \A i \in DOMAIN uploadSubDir : \A j \in DOMAIN uploadSubDir :
                 i < j => Bandwidth(i - 1) < Bandwidth(j - 1)
            /\ \A i \in DOMAIN uploadSubDir :
                 Bandwidth(i - 1) = i * 250000)
    /\ [][masterFile # NoFile => masterFile' = masterFile]_vars

C16_Witness ==
    /\ uploadSubDir = << Rung(360, 640), Rung(480, 854) >>
    /\ masterFile =
         "#EXTM3U\n#EXT-X-STREAM-INF:BANDWIDTH=250000,RESOLUTION=640x360\n360p/index.m3u8\n#EXT-X-STREAM-INF:BANDWIDTH=500000,RESOLUTION=854x480\n480p/index.m3u8"

C18_QueuedEventuallyTerminal ==
    (HasStatus(QUEUED) /\ appPc = "rejected")
        ~> (HasStatus(COMPLETED) \/ HasStatus(ERROR))

\* C19: whichever way a unit ends, its promise is settled once the unit has
\* exited (so that processJob, which awaits both promises, can go on and
\* terminate): after a success or failure message, an error event, or an
\* exit with any code, with or without a message before it.
C19_PromisesSettledWhenUnitsEnd ==
    /\ ffw = "exited" => ffmpegPromise.state # "pending"
    /\ upw = "exited" => uploadPromise.state # "pending"

\* C20: once processJob has begun to remove the working directories, and
\* once it has returned, neither the transcode unit nor the upload unit is
\* still at work.
C20_NoUnitRunningAtCleanup ==
    pc \in {"rmRoot", "done"} => ffw # "running" /\ upw # "running"

\* the number a progress value stands for
ProgressNumber(p) ==
    CASE p = "0" -> 0
      [] p = "5" -> 5
      [] p = "20" -> 20
      [] p = "100" -> 100

\* C21: no step lowers the record's progress, whoever writes: the
\* submission, processJob, or the queue observer on failed and on completed.
C21_ProgressNeverDecreases ==
    [][ ("progress" \in DOMAIN rec) =>
          /\ "progress" \in DOMAIN rec'
          /\ ProgressNumber(rec'.progress) >= ProgressNumber(rec.progress)
      ]_vars

C21_Witness ==
    /\ statusLog = <<QUEUED, CHECKING, PROCESSING, ERROR, COMPLETED>>
    /\ rec.progress = "100"
    /\ "masterUrl" \notin DOMAIN rec
    /\ events = {}

====
